---- MODULE Spec2Model ----
(***************************************************************************)
(* Model of synkvaksms/client.py: the Vaksms client session, its lazy      *)
(* mirror discovery (__create_request), the request executor               *)
(* (_send_request), the three process-wide TTL caches behind @cached, and  *)
(* the wait_sms_code polling loop.                                         *)
(*                                                                         *)
(* The network is the environment: for every call it is a function from    *)
(* host to what requests.get + r.json() produce there (a network-level     *)
(* failure or a parsed JSON body).  Time is a discrete clock `now`.        *)
(***************************************************************************)
EXTENDS Integers, Sequences, FiniteSets, TLC

VARIABLES
    _api_key,   \* session -> self._api_key
    _base_url,  \* session -> self._base_url (None until pinned)
    ctor_url,   \* session -> the base_url argument __init__ was given
    now,        \* the clock read by time.time() and by the TTL caches
    caches,     \* cache name -> TTLCache contents, least recently used first
    pc,         \* position of the single caller: idle, or inside wait_sms_code
    last        \* the call in progress or just finished: requests sent, outcome

vars == <<_api_key, _base_url, ctor_url, now, caches, pc, last>>

---------------------------------------------------------------------------
(* Bounds of the model *)

\* The clock stops at MaxTime.
MaxTime == 2

\* A wait_sms_code call is followed for at most MaxPolls polls.
MaxPolls == 3

\* TTLCache(maxsize=100, ttl=3600): capacity (entries) and lifetime (clock
\* ticks), scaled down so that a full cache and an expired entry are
\* reachable.
maxsize == 2
ttl == 1

---------------------------------------------------------------------------
(* Values *)

None == "None"

Sessions == {"A", "B"}

\* the default mirror list of __create_request
base_urls == <<"https://vak-sms.com", "https://moresms.net", "https://vaksms.ru">>

\* a base_url given explicitly to __init__
Custom == "https://custom.example"

Urls == {base_urls[i] : i \in 1..Len(base_urls)} \cup {Custom}

\* The argument tuples a cached method is called with.
Args == {"a1", "a2"}
NoArgs == "()"

\* JSON values of the `error` field, written as JSON text ('' is the empty
\* string); "absent" when the object has no such field.
ErrorValues == {"absent", "null", "false", "0", "0.0", "''", "[]", "{}",
                "'apiKeyNotFound'", "'noMoney'", "'0'", "'false'", "1", "true",
                "['noMoney']", "{'code': 0}"}

\* The smsCode field of a /api/getSmsCode/ answer.
SmsAbsent == [t |-> "absent", v |-> <<>>]
SmsNull == [t |-> "null", v |-> <<>>]
SmsList(codes) == [t |-> "list", v |-> codes]
SmsStr(code) == [t |-> "str", v |-> <<code>>]

\* A body's data is the version of the provider's data it carries: the
\* time it was produced at.
NetErr == [kind |-> "neterr", error |-> "absent", data |-> -1, smsCode |-> SmsAbsent]
NoBody == [kind |-> "none", error |-> "absent", data |-> -1, smsCode |-> SmsAbsent]
DictBody(e, d, sms) == [kind |-> "dict", error |-> e, data |-> d, smsCode |-> sms]
ListBody(d) == [kind |-> "list", error |-> "absent", data |-> d, smsCode |-> SmsAbsent]
ScalarBody(d) == [kind |-> "scalar", error |-> "absent", data |-> d, smsCode |-> SmsAbsent]

---------------------------------------------------------------------------
(* Outcomes of a call: a returned value or a raised exception *)

Value(type, body, extra) == [type |-> type, of |-> body, extra |-> extra]
NoValue == Value("None", NoBody, "")

Return(v) == [kind |-> "return", val |-> v, exc |-> "", msg |-> ""]
Raise(exc, msg) == [kind |-> "raise", val |-> NoValue, exc |-> exc, msg |-> msg]

\* raise ValueError('API key is required for this method')
KeyRequiredError == Raise("ValueError", "API key is required for this method")
\* raise ValueError('Invalid Base URL')
InvalidBaseUrl == Raise("ValueError", "Invalid Base URL")

\* exceptions.py: VakSmsBadRequest is not a ValueError, so the discovery
\* loop's `except ValueError` lets it through.
IsValueError(exc) == exc = "ValueError"

---------------------------------------------------------------------------
(* _send_request *)

\* Python truth value of a parsed JSON value
Truthy(v) == v \notin {"null", "false", "0", "0.0", "''", "[]", "{}"}

\* response.get('error'): None when the field is absent
GetError(response) == IF response.error = "absent" THEN "null" ELSE response.error

\* whether requests.get is reached: base_url + uri raises TypeError on None
Sent(base_url) == base_url # None

\* Faulty variant: `'error' in response` instead of response.get('error')
_send_request_ErrorPresent(base_url, response) ==
    IF ~Sent(base_url) THEN Raise("TypeError", "NoneType + str")
    ELSE IF response.kind = "neterr" THEN InvalidBaseUrl
    ELSE IF response.kind # "dict" \/ response.error = "absent"
         THEN Return(Value("json", response, ""))
         ELSE Raise("VakSmsBadRequest", response.error)

_send_request(base_url, response) ==
    IF ~Sent(base_url) THEN Raise("TypeError", "NoneType + str")
    ELSE IF response.kind = "neterr" THEN InvalidBaseUrl
    ELSE IF response.kind # "dict" \/ ~Truthy(GetError(response))
         THEN Return(Value("json", response, ""))
         ELSE Raise("VakSmsBadRequest", response.error)

---------------------------------------------------------------------------
(* Vaksms.__create_request *)

\* for base_url in base_urls: try ... except ValueError (lines 314-320),
\* from candidate i on, falling through to line 322 with base_url still None
\* one request as the caller of _send_request saw it: the host, and
\* "return" or the exception raised
Sending(u, r) == [url |-> u, res |-> IF r.kind = "return" THEN "return" ELSE r.exc]

RECURSIVE Discover(_, _)
\* Faulty variant: the loop pins the answering mirror but goes on to the next
Discover_KeepsProbing(i, net) ==
    IF i > Len(base_urls)
    THEN [out |-> _send_request(None, NetErr), base |-> None, reqs |-> <<>>]
    ELSE LET u == base_urls[i]
             r == _send_request(u, net[u])
             rest == Discover(i + 1, net)
         IN  IF r.kind = "return"
             THEN [out |-> r, base |-> u, reqs |-> <<Sending(u, r)>> \o rest.reqs]
             ELSE IF IsValueError(r.exc)
                  THEN [rest EXCEPT !.reqs = <<Sending(u, r)>> \o @]
                  ELSE [out |-> r, base |-> None, reqs |-> <<Sending(u, r)>>]

Discover(i, net) ==
    IF i > Len(base_urls)
    THEN [out |-> _send_request(None, NetErr), base |-> None, reqs |-> <<>>]
    ELSE LET u == base_urls[i]
             r == _send_request(u, net[u])
         IN  IF r.kind = "return"
             THEN [out |-> r, base |-> u, reqs |-> <<Sending(u, r)>>]
             ELSE IF IsValueError(r.exc)
                  THEN LET rest == Discover(i + 1, net)
                       IN  [rest EXCEPT !.reqs = <<Sending(u, r)>> \o @]
                  ELSE [out |-> r, base |-> None, reqs |-> <<Sending(u, r)>>]

\* Faulty variant: a network failure on the session's base address falls back to
\* the mirror list
create_request_FallsBack(key, base, api_key_required, net) ==
    IF api_key_required /\ key = ""
    THEN [out |-> KeyRequiredError, base |-> base, reqs |-> <<>>]
    ELSE IF base = None
         THEN Discover(1, net)
         ELSE LET r == _send_request(base, net[base])
                  d == Discover(1, net)
              IN  IF r.kind = "raise" /\ IsValueError(r.exc)
                  THEN [d EXCEPT !.reqs = <<Sending(base, r)>> \o @]
                  ELSE [out |-> r, base |-> base, reqs |-> <<Sending(base, r)>>]

\* Faulty variant: a network failure on the session's base address clears it
create_request_Unpins(key, base, api_key_required, net) ==
    IF api_key_required /\ key = ""
    THEN [out |-> KeyRequiredError, base |-> base, reqs |-> <<>>]
    ELSE IF base = None
         THEN Discover(1, net)
         ELSE LET r == _send_request(base, net[base])
              IN  [out |-> r,
                   base |-> IF r.kind = "raise" /\ IsValueError(r.exc) THEN None ELSE base,
                   reqs |-> <<Sending(base, r)>>]

\* Faulty variant: no check of the API key
create_request_NoKeyCheck(key, base, api_key_required, net) ==
    IF base = None
    THEN Discover(1, net)
    ELSE LET r == _send_request(base, net[base])
         IN  [out |-> r, base |-> base, reqs |-> <<Sending(base, r)>>]

\* The result of one __create_request on a session whose key is `key` and
\* whose base address is `base`: outcome, base address afterwards, hosts
\* contacted in order.
create_request(key, base, api_key_required, net) ==
    IF api_key_required /\ key = ""
    THEN [out |-> KeyRequiredError, base |-> base, reqs |-> <<>>]
    ELSE IF base = None
         THEN Discover(1, net)
         ELSE LET r == _send_request(base, net[base])
              IN  [out |-> r, base |-> base, reqs |-> <<Sending(base, r)>>]

---------------------------------------------------------------------------
(* TTLCache(maxsize, ttl) and @cached *)

CacheNames == {"cache", "cache_countries", "cache_all_data"}

Entry(key, v, t) == [k |-> key, v |-> v, exp |-> t + ttl]

HasKey(c, key) == \E i \in 1..Len(c) : c[i].k = key
Lookup(c, key) == c[CHOOSE i \in 1..Len(c) : c[i].k = key]
Remove(c, key) == SelectSeq(c, LAMBDA e : e.k # key)

\* TTLCache.__getlink: a lookup moves the key to the recently-used end
GetLink(c, key) == IF HasKey(c, key) THEN Remove(c, key) \o <<Lookup(c, key)>> ELSE c

\* Faulty variant: a lookup that does not look at the expiry time
Live_NeverExpires(c, key, t) == HasKey(c, key)

\* TTLCache.__getitem__ finds the key and its entry has not expired
Live(c, key, t) == HasKey(c, key) /\ t < Lookup(c, key).exp

\* TTLCache.expire(time)
Expire(c, t) == SelectSeq(c, LAMBDA e : t < e.exp)

\* Faulty variant: a full cache gives up its most recently used entry
RECURSIVE PopWhileFull_Newest(_)
PopWhileFull_Newest(c) ==
    IF Len(c) + 1 > maxsize /\ Len(c) > 0
    THEN PopWhileFull_Newest(SubSeq(c, 1, Len(c) - 1)) ELSE c

\* Cache.__setitem__: while currsize + size > maxsize: popitem(), the
\* least recently used first
RECURSIVE PopWhileFull(_)
PopWhileFull(c) == IF Len(c) + 1 > maxsize /\ Len(c) > 0 THEN PopWhileFull(Tail(c)) ELSE c

\* TTLCache.__setitem__ at time t
SetItem(c, key, v, t) ==
    LET c1 == Expire(c, t)
        c2 == IF HasKey(c1, key) THEN c1 ELSE PopWhileFull(c1)
    IN  Remove(c2, key) \o <<Entry(key, v, t)>>

\* the entries of c that are no longer in c2 (expired and removed, evicted,
\* or replaced)
Dropped(c, c2) ==
    {c[i] : i \in {j \in 1..Len(c) : \A n \in 1..Len(c2) : c2[n] # c[j]}}

\* Faulty variant: a key of the arguments alone
HashKey_WithoutSelf(s, arg) == <<"", arg>>

\* cachetools.keys.hashkey(self, *args): the session is part of the key
HashKey(s, arg) == <<s, arg>>

---------------------------------------------------------------------------
(* The public methods *)

Ops == {"get_balance", "get_count_number", "get_country_list", "get_number",
        "prolong_number", "set_status", "get_sms_code", "wait_sms_code",
        "get_count_number_list"}

CachedOps == {"get_count_number", "get_country_list", "get_count_number_list"}

CacheOf(op) ==
    CASE op = "get_count_number" -> "cache"
      [] op = "get_country_list" -> "cache_countries"
      [] op = "get_count_number_list" -> "cache_all_data"

UriOf(op) ==
    CASE op = "get_balance" -> "/api/getBalance"
      [] op = "get_count_number" -> "/api/getCountNumber"
      [] op = "get_country_list" -> "/api/getCountryList"
      [] op = "get_number" -> "/api/getNumber/"
      [] op = "prolong_number" -> "/api/prolongNumber"
      [] op = "set_status" -> "/api/setStatus"
      [] op = "get_sms_code" -> "/api/getSmsCode/"
      [] op = "get_count_number_list" -> "/api/getCountNumbersList"

\* api_key_required of the method's __create_request call
KeyRequired(op) == op \notin {"get_country_list", "get_count_number_list"}

\* What the method does with the JSON its request returned; base is
\* self._base_url after the request.
Post(op, base, v) ==
    LET body == v.of IN
    CASE op \in {"get_balance", "set_status", "prolong_number"} ->
            \* response['balance'], response['status'], response['service'] = ...
            IF body.kind = "dict" THEN Return(Value(op, body, ""))
            ELSE Raise("TypeError", "indices must be integers")
      [] op = "get_number" ->
            \* a list is a MultipleResponse, a dict a Number
            IF body.kind = "list" THEN Return(Value("MultipleResponse", body, ""))
            ELSE IF body.kind = "dict" THEN Return(Value("Number", body, ""))
            ELSE Raise("TypeError", "does not support item assignment")
      [] op = "get_sms_code" -> Return(v)
      [] op = "get_count_number" ->
            \* list(response.keys())[0]
            IF body.kind = "dict" THEN Return(Value("CountNumber", body, ""))
            ELSE Raise("AttributeError", "keys")
      [] op = "get_country_list" ->
            \* CountryList(response).root
            IF body.kind = "list" THEN Return(Value("CountryList", body, ""))
            ELSE Raise("ValidationError", "CountryList")
      [] op = "get_count_number_list" ->
            \* for service in response.keys(): s.icon = self._base_url + s.icon
            IF body.kind = "dict" THEN Return(Value("Services", body, base))
            ELSE Raise("AttributeError", "keys")

\* The method body behind the decorator: one __create_request, then Post.
Method(op, key, base, net) ==
    LET cr == create_request(key, base, KeyRequired(op), net)
    IN  IF cr.out.kind = "raise" THEN cr
        ELSE [cr EXCEPT !.out = Post(op, cr.base, cr.out.val)]

\* Faulty variant: the wrapper stores whatever the method ended with
Cached_StoresFailures(c, op, s, arg, key, base, net, t) ==
    LET k == HashKey(s, arg) IN
    IF Live(c, k, t)
    THEN [out |-> Return(Lookup(c, k).v), base |-> base, reqs |-> <<>>,
          cache |-> GetLink(c, k)]
    ELSE LET m == Method(op, key, base, net)
         IN  [out |-> m.out, base |-> m.base, reqs |-> m.reqs,
              cache |-> SetItem(GetLink(c, k), k, m.out.val, t)]

\* cachetools.cached(cache)(method)(self, *args): result and cache afterwards
Cached(c, op, s, arg, key, base, net, t) ==
    LET k == HashKey(s, arg) IN
    IF Live(c, k, t)
    THEN [out |-> Return(Lookup(c, k).v), base |-> base, reqs |-> <<>>,
          cache |-> GetLink(c, k)]
    ELSE LET m == Method(op, key, base, net)
         IN  [out |-> m.out, base |-> m.base, reqs |-> m.reqs,
              cache |-> IF m.out.kind = "return"
                        THEN SetItem(GetLink(c, k), k, m.out.val, t)
                        ELSE GetLink(c, k)]

---------------------------------------------------------------------------
(* The environment: what each host answers to one request *)

\* /api/getSmsCode/ answers: the smsCode field absent, null, a list, a string
SmsValues == {SmsAbsent, SmsNull, SmsList(<<>>), SmsList(<<"c1">>),
              SmsList(<<"c1", "c2">>), SmsStr("c1")}

\* Parsed JSON bodies a host may answer a request for `uri` with at time t:
\* a success object, a provider error, a list.
BodiesFor(uri, t) ==
    (IF uri = "/api/getSmsCode/"
     THEN {DictBody("absent", t, sms) : sms \in SmsValues}
     ELSE {DictBody("absent", t, SmsAbsent)})
    \cup {DictBody("'apiKeyNotFound'", t, SmsAbsent), ListBody(t)}

\* position of a host in the order it is tried
Pos(u) == IF u = Custom THEN 1 ELSE CHOOSE i \in 1..Len(base_urls) : base_urls[i] = u

\* The network at the time of one call: the first k hosts are unreachable,
\* the others answer r.
Nets(uri, t) ==
    {[u \in Urls |-> IF Pos(u) <= k THEN NetErr ELSE r] :
        k \in 0..Len(base_urls), r \in BodiesFor(uri, t)}

\* Everything requests.get + r.json() can hand to _send_request
AllResponses ==
    {DictBody(e, 0, SmsAbsent) : e \in ErrorValues} \cup {ListBody(0), ScalarBody(0), NetErr}

---------------------------------------------------------------------------
(* State *)

Idle == [at |-> "idle", s |-> "", start |-> 0, timeout |-> 0, per_attempt |-> 0]
Returned == [at |-> "returned", s |-> "", start |-> 0, timeout |-> 0, per_attempt |-> 0]

\* what the host of the last request of `sent` answered
Answer(sent, net) == IF sent = <<>> THEN NoBody ELSE net[sent[Len(sent)].url]

\* a request of a call: host, uri, query parameters, how _send_request ended
Reqs(sent, uri, params) ==
    [i \in 1..Len(sent) |->
        [url |-> sent[i].url, uri |-> uri, params |-> params, res |-> sent[i].res]]

Call(s, op, arg, reqs, out) ==
    [s |-> s, op |-> op, arg |-> arg, reqs |-> reqs, out |-> out, resp |-> NoBody,
     dropped |-> {}]

\* the outcome of a wait_sms_code call still in its loop
Pending == [kind |-> "pending", val |-> NoValue, exc |-> "", msg |-> ""]

NoCall == Call("", "none", NoArgs, <<>>, Pending)

\* Vaksms.__init__(api_key, base_url): session A is given no base address
\* and an API key or none, session B a key and an explicit base address
Init ==
    /\ _api_key \in {f \in [Sessions -> {"", "k1", "k2"}] : f["A"] # "k2" /\ f["B"] = "k2"}
    /\ ctor_url = [s \in Sessions |-> IF s = "A" THEN None ELSE Custom]
    /\ _base_url = ctor_url
    /\ now = 0
    /\ caches = [n \in CacheNames |-> <<>>]
    /\ pc = Idle
    /\ last = NoCall

---------------------------------------------------------------------------
(* Actions: one per public method *)

\* an uncached method called on session s
Plain(s, op, arg) ==
    /\ pc.at = "idle"
    /\ \E net \in Nets(UriOf(op), now) :
        LET m == Method(op, _api_key[s], _base_url[s], net) IN
        /\ _base_url' = [_base_url EXCEPT ![s] = m.base]
        /\ last' = Call(s, op, arg, Reqs(m.reqs, UriOf(op), arg), m.out)
    /\ pc' = Returned
    /\ UNCHANGED <<_api_key, ctor_url, now, caches>>

\* Bound of the exploration: a run keeps entries in one of the three caches
\* at a time (they are separate TTLCache objects; no method reads two).
OneCacheInUse(op) == \A n \in CacheNames \ {CacheOf(op)} : caches[n] = <<>>

\* a method behind @cached called on session s
Memoized(s, op, arg) ==
    /\ pc.at = "idle"
    /\ OneCacheInUse(op)
    /\ \E net \in Nets(UriOf(op), now) :
        LET m == Cached(caches[CacheOf(op)], op, s, arg, _api_key[s], _base_url[s], net, now) IN
        /\ _base_url' = [_base_url EXCEPT ![s] = m.base]
        /\ caches' = [caches EXCEPT ![CacheOf(op)] = m.cache]
        /\ last' = [Call(s, op, arg, Reqs(m.reqs, UriOf(op), arg), m.out)
                        EXCEPT !.dropped = Dropped(caches[CacheOf(op)], m.cache)]
    /\ pc' = Returned
    /\ UNCHANGED <<_api_key, ctor_url, now>>

get_balance(s) == Plain(s, "get_balance", NoArgs)

get_count_number(s, arg) == Memoized(s, "get_count_number", arg)

get_country_list(s) == Memoized(s, "get_country_list", NoArgs)

get_number(s, arg) == Plain(s, "get_number", arg)

prolong_number(s, arg) == Plain(s, "prolong_number", arg)

set_status(s, status) == Plain(s, "set_status", status)

\* the key check of lines 208-209 is the one __create_request repeats
get_sms_code(s) == Plain(s, "get_sms_code", NoArgs)

get_count_number_list(s, arg) == Memoized(s, "get_count_number_list", arg)

---------------------------------------------------------------------------
(* wait_sms_code: the call, then one action per loop iteration *)

WaitTimeouts == {1, 2}
PerAttempts == {1, 2}

\* the requests of the current call that went to uri
SentTo(uri) == {i \in 1..Len(last.reqs) : last.reqs[i].uri = uri}

\* the number of getSmsCode requests of the current call
Polls == Cardinality(SentTo(UriOf("get_sms_code")))

\* Faulty variant: the loop is entered whatever became of set_status('send')
wait_sms_code_IgnoresSend(s, timeout, per_attempt) ==
    /\ pc.at = "idle"
    /\ IF _api_key[s] = ""
       THEN /\ last' = Call(s, "wait_sms_code", NoArgs, <<>>, KeyRequiredError)
            /\ pc' = Returned
            /\ UNCHANGED _base_url
       ELSE \E net \in Nets(UriOf("set_status"), now) :
            LET m == Method("set_status", _api_key[s], _base_url[s], net) IN
            /\ _base_url' = [_base_url EXCEPT ![s] = m.base]
            /\ IF FALSE
               THEN /\ last' = Call(s, "wait_sms_code", NoArgs,
                                    Reqs(m.reqs, UriOf("set_status"), "send"), m.out)
                    /\ pc' = Returned
               ELSE /\ last' = Call(s, "wait_sms_code", NoArgs,
                                    Reqs(m.reqs, UriOf("set_status"), "send"), Pending)
                    /\ pc' = [at |-> "loop", s |-> s, start |-> now,
                              timeout |-> timeout, per_attempt |-> per_attempt]
    /\ UNCHANGED <<_api_key, ctor_url, now, caches>>

\* lines 231-242: the key check, set_status('send'), start_time
wait_sms_code(s, timeout, per_attempt) ==
    /\ pc.at = "idle"
    /\ IF _api_key[s] = ""
       THEN /\ last' = Call(s, "wait_sms_code", NoArgs, <<>>, KeyRequiredError)
            /\ pc' = Returned
            /\ UNCHANGED _base_url
       ELSE \E net \in Nets(UriOf("set_status"), now) :
            LET m == Method("set_status", _api_key[s], _base_url[s], net) IN
            /\ _base_url' = [_base_url EXCEPT ![s] = m.base]
            /\ IF m.out.kind = "raise"
               THEN /\ last' = Call(s, "wait_sms_code", NoArgs,
                                    Reqs(m.reqs, UriOf("set_status"), "send"), m.out)
                    /\ pc' = Returned
               ELSE /\ last' = Call(s, "wait_sms_code", NoArgs,
                                    Reqs(m.reqs, UriOf("set_status"), "send"), Pending)
                    /\ pc' = [at |-> "loop", s |-> s, start |-> now,
                              timeout |-> timeout, per_attempt |-> per_attempt]
    /\ UNCHANGED <<_api_key, ctor_url, now, caches>>

\* Faulty variant: return sms[0]
PollResult_First(v) ==
    LET body == v.of IN
    IF body.kind # "dict" THEN Raise("TypeError", "indices must be integers")
    ELSE IF body.smsCode.t = "absent" THEN Raise("KeyError", "smsCode")
    ELSE IF body.smsCode.t = "list"
         THEN IF Len(body.smsCode.v) = 0 THEN Raise("IndexError", "list index out of range")
              ELSE Return(Value("code", NoBody, body.smsCode.v[1]))
         ELSE Pending

\* Faulty variant: `if sms:` with a bare code returned as it is
PollResult_AnyCode(v) ==
    LET body == v.of IN
    IF body.kind # "dict" THEN Raise("TypeError", "indices must be integers")
    ELSE IF body.smsCode.t = "absent" THEN Raise("KeyError", "smsCode")
    ELSE IF body.smsCode.t = "list"
         THEN IF Len(body.smsCode.v) = 0 THEN Raise("IndexError", "list index out of range")
              ELSE Return(Value("code", NoBody, body.smsCode.v[Len(body.smsCode.v)]))
         ELSE IF body.smsCode.t = "str"
              THEN Return(Value("code", NoBody, body.smsCode.v[1]))
              ELSE Pending

\* sms = response['smsCode']; if type(sms) == list: return sms[-1]
PollResult(v) ==
    LET body == v.of IN
    IF body.kind # "dict" THEN Raise("TypeError", "indices must be integers")
    ELSE IF body.smsCode.t = "absent" THEN Raise("KeyError", "smsCode")
    ELSE IF body.smsCode.t = "list"
         THEN IF Len(body.smsCode.v) = 0 THEN Raise("IndexError", "list index out of range")
              ELSE Return(Value("code", NoBody, body.smsCode.v[Len(body.smsCode.v)]))
         ELSE Pending

\* Faulty variant: the loop goes on while elapsed <= timeout
wait_poll_Inclusive ==
    /\ pc.at = "loop"
    /\ now - pc.start <= pc.timeout
    /\ now + pc.per_attempt <= MaxTime
    /\ Polls < MaxPolls
    /\ now' = now + pc.per_attempt
    /\ \E net \in Nets(UriOf("get_sms_code"), now') :
        LET cr == create_request(_api_key[pc.s], _base_url[pc.s], TRUE, net)
            out == IF cr.out.kind = "raise" THEN cr.out ELSE PollResult(cr.out.val)
        IN  /\ _base_url' = [_base_url EXCEPT ![pc.s] = cr.base]
            /\ last' = [last EXCEPT !.reqs = @ \o Reqs(cr.reqs, UriOf("get_sms_code"), NoArgs),
                                    !.out = out,
                                    !.resp = Answer(cr.reqs, net)]
            /\ pc' = IF out.kind = "pending" THEN pc ELSE Returned
    /\ UNCHANGED <<_api_key, ctor_url, caches>>

\* Faulty variant: a poll that fails is tried again at the next iteration
wait_poll_SwallowsError ==
    /\ pc.at = "loop"
    /\ now - pc.start < pc.timeout
    /\ now + pc.per_attempt <= MaxTime
    /\ Polls < MaxPolls
    /\ now' = now + pc.per_attempt
    /\ \E net \in Nets(UriOf("get_sms_code"), now') :
        LET cr == create_request(_api_key[pc.s], _base_url[pc.s], TRUE, net)
            out == IF cr.out.kind = "raise" THEN cr.out ELSE PollResult(cr.out.val)
        IN  /\ _base_url' = [_base_url EXCEPT ![pc.s] = cr.base]
            /\ last' = [last EXCEPT !.reqs = @ \o Reqs(cr.reqs, UriOf("get_sms_code"), NoArgs),
                                    !.out = out,
                                    !.resp = Answer(cr.reqs, net)]
            /\ pc' = IF out.kind \in {"pending", "raise"} THEN pc ELSE Returned
    /\ UNCHANGED <<_api_key, ctor_url, caches>>

\* Faulty variant: start_time is taken anew at every iteration
wait_poll_RestartsTimer ==
    /\ pc.at = "loop"
    /\ now - pc.start < pc.timeout
    /\ now + pc.per_attempt <= MaxTime
    /\ Polls < MaxPolls
    /\ now' = now + pc.per_attempt
    /\ \E net \in Nets(UriOf("get_sms_code"), now') :
        LET cr == create_request(_api_key[pc.s], _base_url[pc.s], TRUE, net)
            out == IF cr.out.kind = "raise" THEN cr.out ELSE PollResult(cr.out.val)
        IN  /\ _base_url' = [_base_url EXCEPT ![pc.s] = cr.base]
            /\ last' = [last EXCEPT !.reqs = @ \o Reqs(cr.reqs, UriOf("get_sms_code"), NoArgs),
                                    !.out = out,
                                    !.resp = Answer(cr.reqs, net)]
            /\ pc' = IF out.kind = "pending" THEN [pc EXCEPT !.start = now'] ELSE Returned
    /\ UNCHANGED <<_api_key, ctor_url, caches>>

\* lines 244-249: the loop condition holds; sleep, poll, look at smsCode
wait_poll ==
    /\ pc.at = "loop"
    /\ now - pc.start < pc.timeout
    /\ now + pc.per_attempt <= MaxTime
    /\ Polls < MaxPolls
    /\ now' = now + pc.per_attempt
    /\ \E net \in Nets(UriOf("get_sms_code"), now') :
        LET cr == create_request(_api_key[pc.s], _base_url[pc.s], TRUE, net)
            out == IF cr.out.kind = "raise" THEN cr.out ELSE PollResult(cr.out.val)
        IN  /\ _base_url' = [_base_url EXCEPT ![pc.s] = cr.base]
            /\ last' = [last EXCEPT !.reqs = @ \o Reqs(cr.reqs, UriOf("get_sms_code"), NoArgs),
                                    !.out = out,
                                    !.resp = Answer(cr.reqs, net)]
            /\ pc' = IF out.kind = "pending" THEN pc ELSE Returned
    /\ UNCHANGED <<_api_key, ctor_url, caches>>

\* lines 244, 251: the loop condition fails; return None
wait_timeout ==
    /\ pc.at = "loop"
    /\ ~(now - pc.start < pc.timeout)
    /\ last' = [last EXCEPT !.out = Return(NoValue)]
    /\ pc' = Returned
    /\ UNCHANGED <<_api_key, _base_url, ctor_url, now, caches>>

\* the caller takes the result of the call and goes on
resume ==
    /\ pc.at = "returned"
    /\ pc' = Idle
    /\ last' = NoCall
    /\ UNCHANGED <<_api_key, _base_url, ctor_url, now, caches>>

\* time passes between calls
Tick ==
    /\ pc.at = "idle"
    /\ now < MaxTime
    /\ now' = now + 1
    /\ UNCHANGED <<_api_key, _base_url, ctor_url, caches, pc, last>>

Next ==
    \/ \E s \in Sessions : get_balance(s)
    \/ \E s \in Sessions, arg \in Args : get_count_number(s, arg)
    \/ \E s \in Sessions : get_country_list(s)
    \/ \E s \in Sessions : get_number(s, NoArgs)
    \/ \E s \in Sessions : prolong_number(s, NoArgs)
    \/ \E s \in Sessions, status \in {"send", "end", "bad"} : set_status(s, status)
    \/ \E s \in Sessions : get_sms_code(s)
    \/ \E s \in Sessions, arg \in Args : get_count_number_list(s, arg)
    \/ \E s \in Sessions, t \in WaitTimeouts, p \in PerAttempts : wait_sms_code(s, t, p)
    \/ wait_poll
    \/ wait_timeout
    \/ resume
    \/ Tick

Spec == Init /\ [][Next]_vars

---------------------------------------------------------------------------
(* _send_request on its own, over every response *)

\* one direct call _send_request(base_url, uri) that is answered `response`
send_request_call ==
    /\ pc.at = "idle"
    /\ \E u \in Urls \cup {None}, response \in AllResponses :
        last' = [Call("", "_send_request", u, <<>>, _send_request(u, response))
                    EXCEPT !.resp = response]
    /\ UNCHANGED <<_api_key, _base_url, ctor_url, now, caches, pc>>

NextSendRequest == send_request_call

SpecSendRequest == Init /\ [][NextSendRequest]_vars

---------------------------------------------------------------------------
(* One wait_sms_code call from its start to its end, with a clock that runs
   while the call is in its loop *)

\* time.time() moves on while the call sleeps, sends and receives
clock_advances ==
    /\ pc.at = "loop"
    /\ now - pc.start < pc.timeout
    /\ now < MaxTime
    /\ now' = now + 1
    /\ UNCHANGED <<_api_key, _base_url, ctor_url, caches, pc, last>>

\* one call, with any timeout and any per_attempt from 0 on
NextWait ==
    \/ \E s \in Sessions, t \in 0..MaxTime, p \in 0..MaxTime : wait_sms_code(s, t, p)
    \/ wait_poll
    \/ wait_timeout
    \/ clock_advances

\* The thread of the call goes on running, each request comes back
\* (requests.get is given timeout=self._timeout), and the clock advances.
FairWait ==
    /\ WF_vars(wait_poll)
    /\ WF_vars(wait_timeout)
    /\ WF_vars(clock_advances)

SpecWait == Init /\ [][NextWait]_vars /\ FairWait

---------------------------------------------------------------------------
(* Two threads in __create_request on one session that has no base address
   yet, one action per statement a thread switch can come between *)

Threads == {"t1", "t2"}

\* the session the threads share
Shared == "A"

\* where a thread is: before its call, at the head of the loop over
\* base_urls with candidate i, between lines 316 and 317, at line 322,
\* or back at its caller with `out`
At(at, i, out) == [at |-> at, i |-> i, out |-> out]

\* what a host may answer one request with
RaceResponses ==
    {NetErr, DictBody("absent", 0, SmsAbsent), DictBody("'apiKeyNotFound'", 0, SmsAbsent)}

\* one request of thread t as the log keeps it
Logged(t, u, r) ==
    [by |-> t, url |-> u, uri |-> UriOf("get_balance"), params |-> NoArgs,
     res |-> Sending(u, r).res]

InitRace ==
    /\ _api_key = [s \in Sessions |-> IF s = "A" THEN "k1" ELSE "k2"]
    /\ ctor_url = [s \in Sessions |-> IF s = "A" THEN None ELSE Custom]
    /\ _base_url = ctor_url
    /\ now = 0
    /\ caches = [n \in CacheNames |-> <<>>]
    /\ pc = [t \in Threads |-> At("idle", 0, Pending)]
    /\ last = [reqs |-> <<>>, assigns |-> <<>>]

\* lines 291-311: the key check, the request arguments, and the test
\* `self._base_url is None`
test_base_url(t) ==
    /\ pc[t].at = "idle"
    /\ pc' = [pc EXCEPT ![t] =
                IF _api_key[Shared] = "" THEN At("returned", 0, KeyRequiredError)
                ELSE IF _base_url[Shared] = None THEN At("try", 1, Pending)
                ELSE At("direct", 0, Pending)]
    /\ UNCHANGED <<_api_key, _base_url, ctor_url, now, caches, last>>

\* line 316 (and 319-320): r = _send_request(base_url, uri, **kwargs) for
\* candidate i of the loop
try_send(t) ==
    /\ pc[t].at = "try"
    /\ \E response \in RaceResponses :
        LET u == base_urls[pc[t].i]
            r == _send_request(u, response)
        IN  /\ last' = [last EXCEPT !.reqs = Append(@, Logged(t, u, r))]
            /\ pc' = [pc EXCEPT ![t] =
                        IF r.kind = "return" THEN At("assign", pc[t].i, r)
                        ELSE IF ~IsValueError(r.exc) THEN At("returned", 0, r)
                        ELSE IF pc[t].i < Len(base_urls) THEN At("try", pc[t].i + 1, Pending)
                        ELSE At("direct", 0, Pending)]
    /\ UNCHANGED <<_api_key, _base_url, ctor_url, now, caches>>

\* Faulty variant: the assignment is made only while no base address is set
assign_IfUnset(t) ==
    /\ pc[t].at = "assign"
    /\ IF _base_url[Shared] = None
       THEN /\ _base_url' = [_base_url EXCEPT ![Shared] = base_urls[pc[t].i]]
            /\ last' = [last EXCEPT !.assigns = Append(@, [by |-> t, url |-> base_urls[pc[t].i]])]
       ELSE UNCHANGED <<_base_url, last>>
    /\ pc' = [pc EXCEPT ![t] = At("returned", 0, pc[t].out)]
    /\ UNCHANGED <<_api_key, ctor_url, now, caches>>

\* lines 317-318: self._base_url = base_url; return r
assign(t) ==
    /\ pc[t].at = "assign"
    /\ _base_url' = [_base_url EXCEPT ![Shared] = base_urls[pc[t].i]]
    /\ last' = [last EXCEPT !.assigns = Append(@, [by |-> t, url |-> base_urls[pc[t].i]])]
    /\ pc' = [pc EXCEPT ![t] = At("returned", 0, pc[t].out)]
    /\ UNCHANGED <<_api_key, ctor_url, now, caches>>

\* line 322: return _send_request(self._base_url, uri, **kwargs), with the
\* base address as it is now
direct_send(t) ==
    /\ pc[t].at = "direct"
    /\ \E response \in RaceResponses :
        LET u == _base_url[Shared]
            r == _send_request(u, response)
        IN  /\ last' = IF Sent(u) THEN [last EXCEPT !.reqs = Append(@, Logged(t, u, r))]
                       ELSE last
            /\ pc' = [pc EXCEPT ![t] = At("returned", 0, r)]
    /\ UNCHANGED <<_api_key, _base_url, ctor_url, now, caches>>

NextRace ==
    \/ \E t \in Threads : test_base_url(t)
    \/ \E t \in Threads : try_send(t)
    \/ \E t \in Threads : assign(t)
    \/ \E t \in Threads : direct_send(t)

SpecRace == InitRace /\ [][NextRace]_vars

---------------------------------------------------------------------------
(* Reading a step: who acted, and which requests the step sent *)

\* the step starts a public method call on session s
CallStep(s) == pc.at = "idle" /\ pc'.at # "idle" /\ last'.s = s

\* the step is one iteration of the wait_sms_code loop of session s
PollStep(s) == pc.at = "loop" /\ pc.s = s /\ Len(last'.reqs) > Len(last.reqs)

Acts(s) == CallStep(s) \/ PollStep(s)

\* the requests sent in the step
NewReqs ==
    IF pc.at = "idle" THEN last'.reqs
    ELSE SubSeq(last'.reqs, Len(last.reqs) + 1, Len(last'.reqs))

\* the set of entries of a cache
Entries(c) == {c[i] : i \in 1..Len(c)}

\* the time the value of a cache entry was fetched at
FetchedAt(e) == e.v.of.data

---------------------------------------------------------------------------
(* C1 *)

\* C1: on a session created without a base address, a call that finds the
\* first k mirrors unreachable and gets a success answer from mirror k+1
\* contacts exactly mirrors 1..k+1 in order and pins mirror k+1; a call on a
\* session that is already pinned sends at most one request, to the pinned
\* mirror, and leaves the pin alone.
C1_PinsFirstReachable ==
    [][\A s \in Sessions :
        (Acts(s) /\ ctor_url[s] = None) =>
            LET rq == NewReqs IN
            /\ _base_url[s] = None =>
                \A k \in 0..(Len(base_urls) - 1) :
                    ( /\ Len(rq) > k
                      /\ \A i \in 1..k : rq[i].res = "ValueError"
                      /\ rq[k + 1].res = "return" )
                    => /\ Len(rq) = k + 1
                       /\ \A i \in 1..(k + 1) : rq[i].url = base_urls[i]
                       /\ _base_url'[s] = base_urls[k + 1]
            /\ _base_url[s] # None =>
                /\ Len(rq) <= 1
                /\ \A i \in 1..Len(rq) : rq[i].url = _base_url[s]
                /\ _base_url'[s] = _base_url[s]
      ]_vars

\* Session A, pinned to the second mirror by an earlier discovery, has just
\* made a call that sent its one request there.
C1_Witness ==
    /\ pc.at = "returned" /\ last.s = "A"
    /\ _base_url["A"] = base_urls[2]
    /\ Len(last.reqs) = 1 /\ last.reqs[1].url = base_urls[2]

---------------------------------------------------------------------------
(* C2 *)

\* C2: on a session created without a base address, a call whose request to
\* a candidate was answered with a provider error leaves the session pinned
\* to that candidate.
C2_ProviderErrorPins ==
    \A s \in Sessions :
        ( /\ last.s = s /\ ctor_url[s] = None
          /\ Len(last.reqs) > 0
          /\ last.reqs[Len(last.reqs)].res = "VakSmsBadRequest" )
        => _base_url[s] = last.reqs[Len(last.reqs)].url

---------------------------------------------------------------------------
(* C3 *)

\* C3: a call on an unpinned session that found every mirror unreachable
\* ends in the connectivity error, ValueError('Invalid Base URL').
C3_AllFailIsConnectivityError ==
    \A s \in Sessions :
        ( /\ pc.at = "returned" /\ last.s = s
          /\ Len(last.reqs) = Len(base_urls)
          /\ \A i \in 1..Len(last.reqs) :
                last.reqs[i].url = base_urls[i] /\ last.reqs[i].res = "ValueError" )
        => last.out = InvalidBaseUrl

---------------------------------------------------------------------------
(* C4 *)

\* C4: a session constructed with a base address keeps it, sends every
\* request to it, and a network failure there ends the call in the
\* connectivity error.
C4_ExplicitBaseOnly ==
    \A s \in Sessions :
        ctor_url[s] # None =>
            /\ _base_url[s] = ctor_url[s]
            /\ last.s = s =>
                /\ \A i \in 1..Len(last.reqs) : last.reqs[i].url = ctor_url[s]
                /\ ( Len(last.reqs) > 0 /\ last.reqs[Len(last.reqs)].res = "ValueError" )
                   => last.out = InvalidBaseUrl

\* Session B, constructed with a base address, got a network failure there.
C4_Witness ==
    /\ pc.at = "returned" /\ last.s = "B" /\ ctor_url["B"] = Custom
    /\ Len(last.reqs) = 1
    /\ last.reqs[1].url = Custom /\ last.reqs[1].res = "ValueError"
    /\ last.out = InvalidBaseUrl

---------------------------------------------------------------------------
(* C5 *)

\* C5: a base address, once set, never changes; and a step of a pinned
\* session whose request fails at the network level sent exactly that one
\* request, to the pinned address, and ends in the connectivity error.
C5_PinnedOnce ==
    [][\A s \in Sessions :
        _base_url[s] # None =>
            /\ _base_url'[s] = _base_url[s]
            /\ Acts(s) =>
                LET rq == NewReqs IN
                /\ \A i \in 1..Len(rq) : rq[i].url = _base_url[s]
                /\ (\E i \in 1..Len(rq) : rq[i].res = "ValueError")
                   => Len(rq) = 1 /\ last'.out = InvalidBaseUrl
      ]_vars

\* Session A, pinned by discovery to the first mirror, got a network failure
\* there on a later call and is still pinned to it.
C5_Witness ==
    /\ pc.at = "returned" /\ last.s = "A"
    /\ _base_url["A"] = base_urls[1]
    /\ Len(last.reqs) = 1
    /\ last.reqs[1].url = base_urls[1] /\ last.reqs[1].res = "ValueError"
    /\ last.out = InvalidBaseUrl

---------------------------------------------------------------------------
(* C6 *)

KeyRequiredOps == {"get_balance", "get_count_number", "get_number", "prolong_number",
                   "set_status", "get_sms_code", "wait_sms_code"}

\* C6: a key-required method called on a session without an API key ends at
\* once in ValueError('API key is required for this method'): no request
\* is sent (for wait_sms_code, no setStatus either, and the loop is not
\* entered), and the base addresses and the caches stay as they were.
C6_KeyRequiredFailsFast ==
    [][\A s \in Sessions :
        (CallStep(s) /\ _api_key[s] = "" /\ last'.op \in KeyRequiredOps) =>
            /\ last'.out = KeyRequiredError
            /\ last'.reqs = <<>>
            /\ pc'.at = "returned"
            /\ _base_url' = _base_url
            /\ caches' = caches
      ]_vars

\* wait_sms_code was called on session A, which has no API key.
C6_Witness ==
    /\ pc.at = "returned" /\ last.s = "A" /\ _api_key["A"] = ""
    /\ last.op = "wait_sms_code"
    /\ last.out = KeyRequiredError /\ last.reqs = <<>>

---------------------------------------------------------------------------
(* C7 *)

\* the error values Python takes as true, one by one
TruthyErrors == {"'apiKeyNotFound'", "'noMoney'", "'0'", "'false'", "1", "true",
                 "['noMoney']", "{'code': 0}"}

\* C7: for every parsed body _send_request gets, it raises VakSmsBadRequest
\* with the error field's value exactly when the body is an object whose
\* error field is truthy; every other object and every list is returned as
\* it is.
C7_Classification ==
    ( /\ last.op = "_send_request" /\ last.arg # None
      /\ last.resp.kind \in {"dict", "list", "scalar"} )
    => LET body == last.resp
           providerError == body.kind = "dict" /\ body.error \in TruthyErrors
       IN  /\ providerError <=> (last.out.kind = "raise" /\ last.out.exc = "VakSmsBadRequest")
           /\ providerError => last.out.msg = body.error
           /\ (~providerError /\ body.kind \in {"dict", "list"})
              => (last.out.kind = "return" /\ last.out.val.of = body)

\* _send_request got an object whose error field is the non-empty string
\* '0' and raised VakSmsBadRequest with it.
C7_Witness ==
    /\ last.op = "_send_request" /\ last.arg = base_urls[1]
    /\ last.resp = DictBody("'0'", 0, SmsAbsent)
    /\ last.out = Raise("VakSmsBadRequest", "'0'")

---------------------------------------------------------------------------
(* C8 *)

\* the step calls a method behind @cached on session s with arguments a
MemoStep(s, op, a) == CallStep(s) /\ last'.op = op /\ last'.arg = a

\* the entries an earlier call of op(s, a) stored and that are still in the
\* cache of op
Stored(s, op, a) == {e \in Entries(caches[CacheOf(op)]) : e.k = <<s, a>>}

\* C8: a call of a cached method finds what an identical call on the same
\* session fetched less than ttl ago: it returns that value, sends no
\* request and changes neither the session nor the set of cache entries. A
\* call that finds nothing of its own in the cache (never stored, or
\* evicted) or only a value fetched ttl or longer ago sends a request
\* (unless the API key it needs is missing).
C8_OneFetchPerTtl ==
    [][\A s \in Sessions, op \in CachedOps, a \in Args \cup {NoArgs} :
        MemoStep(s, op, a) =>
            /\ \A e \in Stored(s, op, a) :
                now - FetchedAt(e) < ttl =>
                    /\ last'.reqs = <<>>
                    /\ last'.out = Return(e.v)
                    /\ _base_url' = _base_url
                    /\ Entries(caches'[CacheOf(op)]) = Entries(caches[CacheOf(op)])
            /\ ( /\ \A e \in Stored(s, op, a) : now - FetchedAt(e) >= ttl
                 /\ ~(KeyRequired(op) /\ _api_key[s] = "") )
               => Len(last'.reqs) >= 1
      ]_vars

\* A call of get_count_number was answered from the cache: it returned the
\* stored value and sent nothing.
C8_Witness ==
    /\ pc.at = "returned" /\ last.op = "get_count_number"
    /\ last.reqs = <<>> /\ last.out.kind = "return"
    /\ \E e \in Entries(caches["cache"]) :
        e.k = <<last.s, last.arg>> /\ last.out.val = e.v

\* Reachability of the other cases of C8: an entry outlives its ttl in the
\* cache, and a call stores into a full cache, pushing an entry out.
C8_ExpiredEntryKept == \E e \in Entries(caches["cache"]) : now - FetchedAt(e) >= ttl
C8_FullCache == \E n \in CacheNames : Len(caches[n]) = maxsize

---------------------------------------------------------------------------
(* C9 *)

\* whether op(s, a), called in the state after this step at time t with any
\* answer from the network, sends a request
RetrySends(s, op, a) ==
    \A t \in now'..MaxTime : \A net \in Nets(UriOf(op), t) :
        Len(Cached(caches'[CacheOf(op)], op, s, a, _api_key[s], _base_url'[s], net, t).reqs) >= 1

\* C9 as stated: a call of a cached method that ends in any error stores
\* nothing, and the next identical call sends a request.
C9_FailureNotCached_AnyError ==
    [][\A s \in Sessions, op \in CachedOps, a \in Args \cup {NoArgs} :
        (MemoStep(s, op, a) /\ last'.out.kind = "raise") =>
            /\ Entries(caches'[CacheOf(op)]) = Entries(caches[CacheOf(op)])
            /\ RetrySends(s, op, a)
      ]_vars

\* C9 amended: a call of a cached method that ends in any error stores
\* nothing; if the call had sent a request (a provider or connectivity
\* error), the next identical call sends a request again.
C9_FailureNotCached ==
    [][\A s \in Sessions, op \in CachedOps, a \in Args \cup {NoArgs} :
        (MemoStep(s, op, a) /\ last'.out.kind = "raise") =>
            /\ Entries(caches'[CacheOf(op)]) = Entries(caches[CacheOf(op)])
            /\ Len(last'.reqs) >= 1 => RetrySends(s, op, a)
      ]_vars

\* get_count_number_list ended in a provider error while another entry of
\* the same cache was in place.
C9_Witness ==
    /\ pc.at = "returned" /\ last.op = "get_count_number_list"
    /\ last.out.kind = "raise" /\ last.out.exc = "VakSmsBadRequest"
    /\ Len(last.reqs) = 1
    /\ Len(caches["cache_all_data"]) >= 1
    /\ \A e \in Entries(caches["cache_all_data"]) : e.k # <<last.s, last.arg>>

---------------------------------------------------------------------------
(* C10 *)

\* another session's entry for the same method and arguments, fetched less
\* than ttl ago
LiveOfOther(s, op, a) ==
    {e \in Entries(caches[CacheOf(op)]) :
        e.k[1] # s /\ e.k[2] = a /\ now - FetchedAt(e) < ttl}

---------------------------------------------------------------------------
(* C11 *)

\* C11: no cache ever holds more than maxsize entries. A cached method never
\* returns a value fetched ttl or longer ago. A lookup that finds a live
\* entry makes it the most recently used one. A call that misses while its
\* cache is full of live entries and that gets a successful result removes
\* exactly the least recently used entry (the one whose last hit or
\* insertion is the oldest) and appends the new entry at the recently-used
\* end.
C11_BoundedFreshLru ==
    [][/\ \A n \in CacheNames : Len(caches'[n]) <= maxsize
       /\ \A s \in Sessions, op \in CachedOps, a \in Args \cup {NoArgs} :
            LET c == caches[CacheOf(op)]
                c2 == caches'[CacheOf(op)]
                k == <<s, a>>
            IN  MemoStep(s, op, a) =>
                /\ last'.out.kind = "return" => now - last'.out.val.of.data < ttl
                /\ (last'.out.kind = "return" /\ last'.reqs = <<>>) =>
                      /\ Len(c2) = Len(c)
                      /\ c2[Len(c2)].k = k
                      /\ \A i, j \in 1..Len(c) :
                            (i < j /\ c[i].k # k /\ c[j].k # k) =>
                            \E m, n \in 1..Len(c2) : m < n /\ c2[m] = c[i] /\ c2[n] = c[j]
                /\ ( /\ Len(c) = maxsize
                     /\ \A e \in Entries(c) : now < e.exp
                     /\ Stored(s, op, a) = {}
                     /\ last'.out.kind = "return" )
                   => /\ Len(c2) = maxsize
                      /\ \A i \in 1..(maxsize - 1) : c2[i] = c[i + 1]
                      /\ c2[maxsize] = Entry(k, last'.out.val, now)
      ]_vars

\* A call stored its result into a full cache and a live entry of another
\* key was pushed out; the new entry is the most recently used one.
C11_Witness ==
    /\ pc.at = "returned" /\ last.op \in CachedOps
    /\ last.out.kind = "return" /\ Len(last.reqs) >= 1
    /\ \E n \in CacheNames :
        /\ Len(caches[n]) = maxsize
        /\ caches[n][maxsize].k = <<last.s, last.arg>>
        /\ \E e \in last.dropped : now < e.exp /\ e.k # <<last.s, last.arg>>

---------------------------------------------------------------------------
(* C12 *)

\* C12: in a wait_sms_code call, every getSmsCode request comes after a
\* setStatus request with status 'send' of the same call that was answered
\* successfully; the call is in its polling loop only after such a request,
\* and every setStatus request of the call carries the status 'send'.
C12_SendBeforePoll ==
    last.op = "wait_sms_code" =>
        /\ \A i \in SentTo(UriOf("get_sms_code")) :
            \E j \in SentTo(UriOf("set_status")) :
                j < i /\ last.reqs[j].params = "send" /\ last.reqs[j].res = "return"
        /\ pc.at = "loop" =>
            \E j \in SentTo(UriOf("set_status")) :
                last.reqs[j].params = "send" /\ last.reqs[j].res = "return"
        /\ \A j \in SentTo(UriOf("set_status")) : last.reqs[j].params = "send"

\* A wait_sms_code call on the unpinned session found the first mirror
\* unreachable, had its 'send' accepted by the second, and has polled.
C12_Witness ==
    /\ last.op = "wait_sms_code" /\ last.s = "A"
    /\ Len(last.reqs) = 3
    /\ last.reqs[1].uri = UriOf("set_status") /\ last.reqs[1].res = "ValueError"
    /\ last.reqs[2].uri = UriOf("set_status") /\ last.reqs[2].res = "return"
    /\ last.reqs[3].uri = UriOf("get_sms_code")

---------------------------------------------------------------------------
(* C13 *)

\* C13: a wait_sms_code call with per_attempt >= timeout > 0 whose 'send'
\* was accepted polls once, per_attempt after its start; if that poll brings
\* no code (the call is still in its loop), the one thing the call then does
\* is return None without another request.
C13_OnePollThenNone ==
    [][( /\ pc.at = "loop" /\ pc.timeout > 0 /\ pc.per_attempt >= pc.timeout
         /\ pc' # pc )
       => /\ Polls = 0 =>
                /\ Polls' = 1
                /\ now' = pc.start + pc.per_attempt
          /\ Polls >= 1 =>
                /\ last'.reqs = last.reqs
                /\ last'.out = Return(NoValue)
                /\ pc'.at = "returned"
          /\ Polls \in {0, 1} /\ Polls' \in {0, 1}
      ]_vars

\* wait_sms_code(timeout = 2, per_attempt = 2) has polled once without
\* getting a code and is back at the test of its loop.
C13_Witness ==
    /\ pc.at = "loop" /\ pc.timeout = 2 /\ pc.per_attempt = 2
    /\ Polls = 1 /\ last.out = Pending
    /\ now - pc.start = 2

---------------------------------------------------------------------------
(* C14 *)

\* C14: a wait_sms_code call whose elapsed time has reached its timeout
\* returns None without a request; no getSmsCode request is sent at a
\* moment when the elapsed time has reached the timeout, and the call is
\* never in its loop with more than the timeout elapsed.
C14_NoPollPastTimeout ==
    [][pc.at = "loop" =>
        /\ now - pc.start >= pc.timeout =>
                last'.reqs = last.reqs /\ last'.out = Return(NoValue)
        /\ PollStep(pc.s) => now' - pc.start < pc.timeout
        /\ pc'.at = "loop" => now' - pc.start <= pc.timeout
      ]_vars

\* Reachability of the case of C14: the one poll of
\* wait_sms_code(timeout = 1, per_attempt = 2) went out 2 after the start.
C14_PolledPastTimeout ==
    /\ pc.at = "loop" /\ pc.timeout = 1 /\ pc.per_attempt = 2
    /\ Polls = 1 /\ now - pc.start = 2

---------------------------------------------------------------------------
(* C15 *)

\* the step is a poll of wait_sms_code that was answered with a JSON object
\* without a provider error, its smsCode field being of kind t
PollAnswered(t) ==
    /\ PollStep(pc.s)
    /\ last'.reqs[Len(last'.reqs)].res = "return"
    /\ last'.resp.kind = "dict"
    /\ last'.resp.smsCode.t = t

\* C15: a poll answered with a non-empty list in smsCode ends the call:
\* it returns the last element of that list and sends nothing more,
\* however many polls came before.
C15_ReturnsLastCode ==
    [][(PollAnswered("list") /\ Len(last'.resp.smsCode.v) >= 1) =>
        /\ pc'.at = "returned"
        /\ last'.out =
             Return(Value("code", NoBody, last'.resp.smsCode.v[Len(last'.resp.smsCode.v)]))
        /\ Polls' = Polls + 1
      ]_vars

\* The second poll of a call was answered with two codes and the call
\* returned the second of them.
C15_Witness ==
    /\ pc.at = "returned" /\ last.op = "wait_sms_code"
    /\ Polls = 2
    /\ last.resp.kind = "dict" /\ last.resp.smsCode = SmsList(<<"c1", "c2">>)
    /\ last.out = Return(Value("code", NoBody, "c2"))

---------------------------------------------------------------------------
(* C16 *)

\* C16: a poll answered with a success object whose smsCode field is
\* absent, null or an empty list raises nothing and returns nothing: the
\* call stays in its loop.
C16_NoCodeKeepsWaiting ==
    [][( \/ PollAnswered("absent")
         \/ PollAnswered("null")
         \/ PollAnswered("list") /\ last'.resp.smsCode.v = <<>> )
       => /\ last'.out = Pending
          /\ pc' = pc
      ]_vars

\* Reachability of the cases of C16: a poll answered without the smsCode
\* field ended the call in KeyError, one answered with an empty list in
\* IndexError, and one answered with null left the call in its loop.
C16_AbsentRaises ==
    /\ pc.at = "returned" /\ last.op = "wait_sms_code" /\ Polls = 1
    /\ last.resp = DictBody("absent", now, SmsAbsent)
    /\ last.out.kind = "raise" /\ last.out.exc = "KeyError"
C16_EmptyRaises ==
    /\ pc.at = "returned" /\ last.op = "wait_sms_code" /\ Polls = 1
    /\ last.resp = DictBody("absent", now, SmsList(<<>>))
    /\ last.out.kind = "raise" /\ last.out.exc = "IndexError"
C16_NullWaits ==
    /\ pc.at = "loop" /\ Polls = 1
    /\ last.resp = DictBody("absent", now, SmsNull)
    /\ last.out = Pending

---------------------------------------------------------------------------
(* C20 *)

\* C20: a poll answered with smsCode as a string leaves the call in its
\* loop with nothing returned; a call that returns a code returns the last
\* element of a list its last poll was answered with; a call that leaves
\* its loop without a further poll returns None.
C20_OnlyListIsCode ==
    [][pc.at = "loop" =>
        /\ PollAnswered("str") => (last'.out = Pending /\ pc' = pc)
        /\ (last'.out.kind = "return" /\ last'.out.val # NoValue) =>
                /\ PollAnswered("list")
                /\ \E i \in 1..Len(last'.resp.smsCode.v) :
                        last'.out.val.extra = last'.resp.smsCode.v[i]
        /\ (pc'.at = "returned" /\ ~PollStep(pc.s)) => last'.out = Return(NoValue)
      ]_vars

\* Both polls of wait_sms_code(timeout = 2, per_attempt = 1) were answered
\* with the code as a string, and the call returned None.
C20_Witness ==
    /\ pc.at = "returned" /\ last.op = "wait_sms_code"
    /\ Polls = 2
    /\ last.resp.kind = "dict" /\ last.resp.smsCode = SmsStr("c1")
    /\ last.out = Return(NoValue)

---------------------------------------------------------------------------
(* C17 *)

\* the session is pinned before the step
Pinned(s) == _base_url[s] # None

\* the call of the step never reaches the network: it is answered from the
\* cache, or it needs an API key the session does not have
NeedsNoRequest(s) ==
    /\ pc.at = "idle"
    /\ \/ /\ last'.op \in CachedOps
          /\ \E e \in Stored(s, last'.op, last'.arg) : now < e.exp
       \/ /\ last'.op = "wait_sms_code" \/ KeyRequired(last'.op)
          /\ _api_key[s] = ""

\* a request of the step failed, and the call ended in that failure at once
FailurePropagates ==
    \A i \in 1..Len(NewReqs) :
        NewReqs[i].res # "return" =>
            /\ i = Len(NewReqs)
            /\ pc'.at = "returned"
            /\ last'.out.kind = "raise" /\ last'.out.exc = NewReqs[i].res

\* C17 as stated: on a pinned session every call of a public method other
\* than wait_sms_code sends exactly one request; in wait_sms_code the
\* 'send' and every poll send one request, and a failed request ends the
\* call in that failure.
C17_ExactlyOneRequest ==
    [][\A s \in Sessions :
        (Acts(s) /\ Pinned(s)) =>
            /\ last'.op # "wait_sms_code" => Len(NewReqs) = 1
            /\ Len(NewReqs) <= 1
            /\ FailurePropagates
      ]_vars

\* C17 amended: on a pinned session a call of a public method, the 'send'
\* of wait_sms_code and each of its polls send at most one request: none
\* when the call is answered from the cache or fails the API key check,
\* exactly one otherwise; a request that fails ends the call in that
\* failure at once, and the session stays pinned to the same host.
C17_NoRetry ==
    [][\A s \in Sessions :
        (Acts(s) /\ Pinned(s)) =>
            /\ Len(NewReqs) = (IF NeedsNoRequest(s) THEN 0 ELSE 1)
            /\ FailurePropagates
            /\ _base_url'[s] = _base_url[s]
      ]_vars

\* The second poll of a wait_sms_code call could not reach the host and the
\* call ended in the connectivity error.
C17_Witness ==
    /\ pc.at = "returned" /\ last.op = "wait_sms_code"
    /\ Polls = 2
    /\ last.reqs[Len(last.reqs)].uri = UriOf("get_sms_code")
    /\ last.reqs[Len(last.reqs)].res = "ValueError"
    /\ last.out = InvalidBaseUrl

---------------------------------------------------------------------------
(* C18 *)

\* the requests thread t has sent
SentBy(t) == {i \in 1..Len(last.reqs) : last.reqs[i].by = t}

\* C18: nothing in the discovery of one thread looks at what another thread
\* has done since the test of line 311. A thread enters the loop when it
\* finds the session without a base address; from then on each of its
\* steps in the loop sends the trial request to its own next candidate,
\* whether or not the session has been pinned meanwhile, and its
\* assignment after a successful trial overwrites whatever base address
\* the session has by then, so that the address may be assigned once per
\* thread.
C18_DiscoveryUnsynchronized ==
    [][\A t \in Threads :
        /\ (pc[t].at = "idle" /\ pc'[t].at = "try") => _base_url[Shared] = None
        /\ (pc[t].at = "try" /\ pc'[t] # pc[t]) =>
                /\ Len(last'.reqs) = Len(last.reqs) + 1
                /\ last'.reqs[Len(last'.reqs)].by = t
                /\ last'.reqs[Len(last'.reqs)].url = base_urls[pc[t].i]
        /\ (pc[t].at = "assign" /\ pc'[t] # pc[t]) =>
                /\ _base_url'[Shared] = base_urls[pc[t].i]
                /\ last'.assigns = Append(last.assigns, [by |-> t, url |-> base_urls[pc[t].i]])
                /\ pc'[t].at = "returned" /\ pc'[t].out.kind = "return"
      ]_vars

\* Both threads made their first call at once: each sent a trial request to
\* the first mirror, each got its answer, and each assigned the base
\* address.
C18_Witness ==
    /\ \A t \in Threads : pc[t].at = "returned" /\ pc[t].out.kind = "return"
    /\ \E i \in SentBy("t1"), j \in SentBy("t2") :
        /\ last.reqs[i].url = base_urls[1] /\ last.reqs[j].url = base_urls[1]
        /\ last.reqs[i].res = "return" /\ last.reqs[j].res = "return"
    /\ Len(last.assigns) = 2
    /\ last.assigns[1].by # last.assigns[2].by

\* Reachability of another outcome of the race: the threads pinned
\* different mirrors one after the other, and a thread that found every
\* mirror unreachable sent its last request to the address the other had
\* pinned meanwhile.
C18_PinnedTwiceDifferently ==
    /\ Len(last.assigns) = 2 /\ last.assigns[1].url # last.assigns[2].url
C18_UsesOthersPin ==
    \E t \in Threads :
        /\ Cardinality(SentBy(t)) = Len(base_urls) + 1
        /\ \A a \in 1..Len(last.assigns) : last.assigns[a].by # t

---------------------------------------------------------------------------
(* C19 *)

\* C19: a wait_sms_code call that is in its loop leaves it: it returns a
\* code, returns None or raises, whatever the polls are answered with, for
\* every timeout and every per_attempt >= 0.
C19_Terminates == (pc.at = "loop") ~> (pc.at = "returned")

\* wait_sms_code(timeout = 2, per_attempt = 0) returned None after polling
\* MaxPolls times without a code.
C19_Witness ==
    /\ pc.at = "returned" /\ last.op = "wait_sms_code"
    /\ Polls = MaxPolls
    /\ now = 2
    /\ last.out = Return(NoValue)

\* Reachability of the case that makes the advancing clock necessary: with
\* per_attempt = 0 the polls of a call follow each other at the same time.
C19_PollsWithoutSleep ==
    /\ pc.at = "loop" /\ pc.per_attempt = 0
    /\ Polls = MaxPolls /\ now = pc.start

====
